---- MODULE Spec2Model ----
(***************************************************************************)
(* Analytics Engine and Reporting Engine: two HTTP/1.1 services that each  *)
(* open a listening socket, accept connections, read one request, route it *)
(* to a handler returning a fixed JSON payload, write the response and     *)
(* close the connection.  The Analytics Engine runs handleClient in a      *)
(* detached thread per connection; the Reporting Engine handles the        *)
(* connection inline in the accept loop.                                   *)
(***************************************************************************)
EXTENDS Integers, Sequences, FiniteSets, TLC

(***************************************************************************)
(* Bounds of the model.                                                    *)
(***************************************************************************)
\* connections a run makes
MaxConn == 2
\* last value of the time(0) clock, in seconds since the epoch
MaxClock == 1

(***************************************************************************)
(* Program constants.                                                      *)
(***************************************************************************)
BufferSize == 4096

Services == {"analytics", "reporting"}

(***************************************************************************)
(* Text.  A request is a sequence of characters (one-character strings).   *)
(***************************************************************************)
\* the byte 0
Nul == "NUL"
SP == <<" ">>
CRLF == <<"\r", "\n">>
GET == <<"G", "E", "T">>
POST == <<"P", "O", "S", "T">>
HTTP11 == <<"H", "T", "T", "P", "/", "1", ".", "1">>
PathHealth == <<"/", "h", "e", "a", "l", "t", "h">>
PathRoot == <<"/">>
PathSpendingAnalysis == <<"/", "s", "p", "e", "n", "d", "i", "n", "g", "-", "a", "n", "a", "l", "y", "s", "i", "s">>
PathTrends == <<"/", "t", "r", "e", "n", "d", "s">>
PathPredictions == <<"/", "p", "r", "e", "d", "i", "c", "t", "i", "o", "n", "s">>
PathReports == <<"/", "r", "e", "p", "o", "r", "t", "s">>
PathNope == <<"/", "n", "o", "p", "e">>
PathHealthz == <<"/", "h", "e", "a", "l", "t", "h", "z">>
PathHealthQuery == <<"/", "h", "e", "a", "l", "t", "h", "?", "x", "=", "1">>
PathEmpty == << >>

\* the characters operator>> skips and stops at (std::isspace)
Whitespace == {" ", "\t", "\n", "\r", "\f"}

\* the first position from i on that holds no whitespace (Len(s) + 1 when
\* only whitespace is left)
SkipWs(s, i) ==
    CHOOSE j \in i..(Len(s) + 1) :
        /\ j = Len(s) + 1 \/ s[j] \notin Whitespace
        /\ \A k \in i..(j - 1) : s[k] \in Whitespace

\* the first position from i on that holds whitespace (Len(s) + 1 when
\* none is left)
TokenEnd(s, i) ==
    CHOOSE j \in i..(Len(s) + 1) :
        /\ j = Len(s) + 1 \/ s[j] \in Whitespace
        /\ \A k \in i..(j - 1) : s[k] \notin Whitespace

\* stream >> word, reading from position i: skips whitespace, takes the
\* characters up to the next whitespace; fails when none is left
Extract(s, i) ==
    LET a == SkipWs(s, i)
        b == TokenEnd(s, a)
    IN  [token |-> SubSeq(s, a, b - 1), next |-> b, ok |-> b > a]

\* request_stream >> method >> path >> version; once an extraction fails
\* the stream is in a failed state and the later strings stay empty
ParseRequestLine(request) ==
    LET m == Extract(request, 1)
        p == IF m.ok THEN Extract(request, m.next)
                     ELSE [token |-> << >>, next |-> m.next, ok |-> FALSE]
        v == IF p.ok THEN Extract(request, p.next)
                     ELSE [token |-> << >>, next |-> p.next, ok |-> FALSE]
    IN  [method |-> m.token, path |-> p.token, version |-> v.token]

\* std::string(const char*): the characters before the first 0 byte
RECURSIVE CString(_)
CString(buf) ==
    IF buf = << >> \/ Head(buf) = Nul THEN << >>
    ELSE <<Head(buf)>> \o CString(Tail(buf))

\* std::string::find(needle) != npos
Find(hay, needle) ==
    \E i \in 1..(Len(hay) - Len(needle) + 1) :
        SubSeq(hay, i, i + Len(needle) - 1) = needle

(***************************************************************************)
(* Responses.  A body is a sequence of text pieces; its length is the      *)
(* number of characters in them.                                           *)
(***************************************************************************)
RECURSIVE Length(_)
Length(pieces) ==
    IF pieces = << >> THEN 0 ELSE Len(Head(pieces)) + Length(Tail(pieces))

StatusOK == "HTTP/1.1 200 OK"
StatusNotFound == "HTTP/1.1 404 Not Found"

Header(n, v) == [name |-> n, value |-> v]

NoResponse == [status_line |-> "", headers |-> << >>, body |-> << >>]

\* the stringstream every handler fills: status line, Content-Type,
\* Content-Length of response.length(), Access-Control-Allow-Origin, body
HttpResponse(status_line, response) ==
    [status_line |-> status_line,
     headers |-> << Header("Content-Type", "application/json"),
                    Header("Content-Length", ToString(Length(response))),
                    Header("Access-Control-Allow-Origin", "*") >>,
     body |-> response]

(***************************************************************************)
(* getCurrentTimestamp.  ctime formats a time_t into its static buffer as  *)
(* "Www Mmm dd hh:mm:ss yyyy\n"; the clock of the model runs over the      *)
(* first seconds of the epoch.                                             *)
(***************************************************************************)
Digit(d) == ToString(d)

ctime(now) ==
    << "Thu Jan  1 00:", Digit((now \div 600) % 6), Digit((now \div 60) % 10), ":",
       Digit((now \div 10) % 6), Digit(now % 10), " 1970", "\n" >>

\* std::string timestamp(dt); the trailing newline is removed
StripNewline(dt) ==
    IF dt # << >> /\ dt[Len(dt)] = "\n" THEN SubSeq(dt, 1, Len(dt) - 1) ELSE dt

(***************************************************************************)
(* Analytics Engine handlers.                                              *)
(***************************************************************************)
analytics_handleHealthCheck(timestamp) ==
    HttpResponse(StatusOK,
        << "{\n  \"status\": \"healthy\",\n  \"service\": \"Analytics Engine\",\n  \"version\": \"1.0.0\",\n  \"timestamp\": \"" >>
        \o timestamp \o
        << "\"\n}" >>)

analytics_handleRootRequest ==
    HttpResponse(StatusOK,
        << "{\n  \"service\": \"Finance Analytics Engine\",\n  \"version\": \"1.0.0\",\n  \"description\": \"High-performance C++ analytics engine for financial calculations\",\n  \"endpoints\": {\n    \"health\": \"GET /health\",\n    \"spending_analysis\": \"GET /spending-analysis\",\n    \"trends\": \"GET /trends\",\n    \"predictions\": \"GET /predictions\"\n  },\n  \"capabilities\": [\n    \"Real-time expense analysis\",\n    \"Trend detection\",\n    \"Statistical calculations\",\n    \"Predictive modeling\"\n  ]\n}" >>)

analytics_handleSpendingAnalysis(timestamp) ==
    HttpResponse(StatusOK,
        << "{\n  \"analysis\": {\n    \"total_expenses\": 2847.32,\n    \"average_daily_spending\": 94.91,\n    \"spending_trend\": \"increasing\",\n    \"top_categories\": [\n      {\"category\": \"Food & Dining\", \"amount\": 856.23, \"percentage\": 30.1},\n      {\"category\": \"Transportation\", \"amount\": 445.67, \"percentage\": 15.6},\n      {\"category\": \"Shopping\", \"amount\": 398.12, \"percentage\": 14.0}\n    ],\n    \"insights\": [\n      \"Spending increased by 12% compared to last month\",\n      \"Food expenses are above average\",\n      \"Transportation costs are stable\"\n    ]\n  },\n  \"generated_at\": \"" >>
        \o timestamp \o
        << "\",\n  \"engine\": \"Analytics Engine v1.0\"\n}" >>)

analytics_handleTrends(timestamp) ==
    HttpResponse(StatusOK,
        << "{\n  \"trends\": {\n    \"monthly_trend\": {\n      \"direction\": \"upward\",\n      \"percentage_change\": 8.5,\n      \"confidence\": 0.87\n    },\n    \"category_trends\": [\n      {\"category\": \"Food & Dining\", \"trend\": \"increasing\", \"change\": 15.2},\n      {\"category\": \"Transportation\", \"trend\": \"stable\", \"change\": -2.1},\n      {\"category\": \"Entertainment\", \"trend\": \"decreasing\", \"change\": -8.7}\n    ],\n    \"seasonal_patterns\": {\n      \"peak_months\": [\"December\", \"January\"],\n      \"low_months\": [\"February\", \"March\"]\n    }\n  },\n  \"analysis_period\": \"last_12_months\",\n  \"generated_at\": \"" >>
        \o timestamp \o
        << "\"\n}" >>)

analytics_handlePredictions(timestamp) ==
    HttpResponse(StatusOK,
        << "{\n  \"predictions\": {\n    \"next_month_spending\": {\n      \"estimated_total\": 3150.50,\n      \"confidence_interval\": {\n        \"lower\": 2890.00,\n        \"upper\": 3410.00\n      },\n      \"confidence_level\": 0.85\n    },\n    \"budget_alerts\": [\n      {\n        \"category\": \"Food & Dining\",\n        \"risk_level\": \"high\",\n        \"predicted_overspend\": 156.78\n      }\n    ],\n    \"recommendations\": [\n      \"Consider reducing dining out expenses\",\n      \"Transportation costs are well managed\",\n      \"Set a stricter budget for shopping\"\n    ]\n  },\n  \"model_version\": \"1.0\",\n  \"generated_at\": \"" >>
        \o timestamp \o
        << "\"\n}" >>)

analytics_handle404 ==
    HttpResponse(StatusNotFound,
        << "{\n  \"error\": \"Endpoint not found\",\n  \"available_endpoints\": [\"/health\", \"/\", \"/spending-analysis\", \"/trends\", \"/predictions\"]\n}" >>)

(***************************************************************************)
(* Reporting Engine handlers.                                              *)
(***************************************************************************)
reporting_handleHealthCheck ==
    HttpResponse(StatusOK,
        << "{\"status\":\"healthy\",\"service\":\"Reporting Engine\",\"version\":\"1.0.0\"}" >>)

reporting_handleRootRequest ==
    HttpResponse(StatusOK,
        << "{\"service\":\"Finance Reporting Engine\",\"version\":\"1.0.0\",\"status\":\"running\",\"endpoints\":{\"/health\":\"Health check\",\"/reports\":\"Generate reports\"}}" >>)

\* the literal "HTTP/1.1 404 Not Found\r\nContent-Length: 0\r\n\r\n"
reporting_NotFound ==
    [status_line |-> StatusNotFound,
     headers |-> << Header("Content-Length", "0") >>,
     body |-> << >>]

(***************************************************************************)
(* Routing.                                                                *)
(***************************************************************************)
\* handleClient of the Analytics Engine: the chain of comparisons on path
analytics_Route(path) ==
    IF path = PathHealth THEN "health"
    ELSE IF path = PathRoot THEN "root"
    ELSE IF path = PathSpendingAnalysis THEN "spending-analysis"
    ELSE IF path = PathTrends THEN "trends"
    ELSE IF path = PathPredictions THEN "predictions"
    ELSE "404"

\* the handlers that call getCurrentTimestamp
UsesTimestamp(route) == route \in {"health", "spending-analysis", "trends", "predictions"}

analytics_Respond(route, timestamp) ==
    IF route = "health" THEN analytics_handleHealthCheck(timestamp)
    ELSE IF route = "root" THEN analytics_handleRootRequest
    ELSE IF route = "spending-analysis" THEN analytics_handleSpendingAnalysis(timestamp)
    ELSE IF route = "trends" THEN analytics_handleTrends(timestamp)
    ELSE IF route = "predictions" THEN analytics_handlePredictions(timestamp)
    ELSE analytics_handle404

\* main of the Reporting Engine: the searches in the whole request text
reporting_Route(request) ==
    IF Find(request, GET \o SP \o PathHealth) THEN "health"
    ELSE IF Find(request, GET \o SP \o PathRoot) THEN "root"
    ELSE "404"

reporting_Respond(route) ==
    IF route = "health" THEN reporting_handleHealthCheck
    ELSE IF route = "root" THEN reporting_handleRootRequest
    ELSE reporting_NotFound

(***************************************************************************)
(* Inputs: what a client sends on its connection.                          *)
(***************************************************************************)
RequestLine(method, path) == method \o SP \o path \o SP \o HTTP11 \o CRLF

\* end of the headers, with no header
NoHeaders == CRLF
\* a header whose value holds the text "GET /health"
RefererHeader == <<"X", ":", " ">> \o GET \o SP \o PathHealth \o CRLF \o CRLF
\* no header, and a body holding a 0 byte and then the text "GET /"
NulBody == CRLF \o <<Nul>> \o GET \o SP \o PathRoot

Methods == {GET, POST}
Paths == {PathHealth, PathRoot, PathSpendingAnalysis, PathTrends, PathPredictions,
          PathReports, PathNope, PathHealthz, PathHealthQuery, PathEmpty}
Tails == {NoHeaders, RefererHeader, NulBody}

\* the requests of the routing specification
WideRequests == {RequestLine(m, p) \o t : m \in Methods, p \in Paths, t \in Tails}

\* the requests of the server specification
Requests == {RequestLine(GET, PathHealth) \o NoHeaders,
             RequestLine(POST, PathNope) \o NoHeaders}

\* sends: data arrives; silent: the client never sends; eof: the client
\* closes without sending (read returns 0); error: read returns -1
ClientKinds == {"sends", "silent", "eof", "error"}

Clients ==
    {[kind |-> "sends", data |-> r] : r \in Requests}
    \cup {[kind |-> k, data |-> << >>] : k \in {"silent", "eof", "error"}}

(***************************************************************************)
(* State.                                                                  *)
(***************************************************************************)
VARIABLES
    service,       \* which of the two programs runs
    main_pc,       \* position of the main thread
    server_fd,     \* the global server_fd
    running,       \* the global running
    sock,          \* the listening socket in the kernel
    log,           \* the messages written to std::cerr
    setup_failed,  \* the socket setup calls that returned an error
    exit_status,   \* the exit status, NotExited while the process lives
    conns,         \* the connections, with the handler serving each
    ctime_buf,     \* the static buffer of ctime
    clock,         \* the value time(0) returns
    sig_pc,        \* position of signalHandler
    sig_thread     \* the thread signalHandler runs on (MainThread or a connection)

vars == <<service, main_pc, server_fd, running, sock, log, setup_failed,
          exit_status, conns, ctime_buf, clock, sig_pc, sig_thread>>

NotExited == -1
MainThread == 0
\* the descriptor socket() returns when descriptors 0, 1 and 2 are open
ListenFd == 3
ConnIds == 1..MaxConn

Min(a, b) == IF a < b THEN a ELSE b

IdleConn ==
    [pc |-> "idle", kind |-> "silent", data |-> << >>, buffer |-> << >>,
     bytes_read |-> 0, route |-> "", t |-> 0, timestamp |-> << >>,
     response |-> NoResponse, io |-> << >>]

Alive == exit_status = NotExited

\* the positions at which a handler holds its client socket open
HandlerPcs == {"read", "route", "time", "ctime", "copy", "send", "close"}

\* Threaded with no service starting a thread: handleClient is called in
\* the accept loop
Threaded_Never == FALSE

\* the Analytics Engine runs each handler in a thread of its own
Threaded == service = "analytics"

\* the thread that runs the handler of connection c
ThreadOf(c) == IF Threaded THEN c ELSE MainThread

InHandler(th) == sig_pc # "none" /\ sig_thread = th

\* a thread takes steps while the process lives and the thread is not
\* inside signalHandler
Steps(th) == Alive /\ ~InHandler(th)

Init ==
    /\ service \in Services
    /\ main_pc = "socket"
    /\ server_fd = 0
    /\ running = TRUE
    /\ sock = "none"
    /\ log = {}
    /\ setup_failed = {}
    /\ exit_status = NotExited
    /\ conns = [c \in ConnIds |-> IdleConn]
    /\ ctime_buf = << >>
    /\ clock = 0
    /\ sig_pc = "none"
    /\ sig_thread = MainThread

(***************************************************************************)
(* main: socket setup.                                                     *)
(***************************************************************************)
\* the listening socket once the process has ended: the kernel closes
\* every descriptor the process held
ClosedAtExit(s) == IF s = "none" THEN "none" ELSE "closed"

\* return 1 from main after a message on std::cerr
Fail(msg) ==
    /\ log' = log \cup {msg}
    /\ exit_status' = 1

\* server_fd = socket(...): -1 on error, else a descriptor, which is 0 when
\* descriptor 0 is free; the code takes 0 for the failure
Socket ==
    /\ Steps(MainThread) /\ main_pc = "socket"
    /\ \E fd \in {-1, 0, ListenFd} :
        /\ server_fd' = fd
        /\ sock' = IF fd < 0 THEN "none" ELSE IF fd = 0 THEN ClosedAtExit("open") ELSE "open"
        /\ setup_failed' = IF fd < 0 THEN setup_failed \cup {"socket"} ELSE setup_failed
        /\ IF fd = 0
           THEN Fail("Socket creation failed") /\ UNCHANGED main_pc
           ELSE main_pc' = "setsockopt" /\ UNCHANGED <<log, exit_status>>
    /\ UNCHANGED <<service, running, conns, ctime_buf, clock, sig_pc, sig_thread>>

\* setsockopt fails on a bad descriptor and may fail on a good one; only the
\* Analytics Engine looks at the result
Setsockopt ==
    /\ Steps(MainThread) /\ main_pc = "setsockopt"
    /\ \E failed \in (IF sock = "open" THEN BOOLEAN ELSE {TRUE}) :
        /\ setup_failed' = IF failed THEN setup_failed \cup {"setsockopt"} ELSE setup_failed
        /\ IF failed /\ service = "analytics"
           THEN Fail("Setsockopt failed") /\ sock' = ClosedAtExit(sock)
                /\ UNCHANGED main_pc
           ELSE main_pc' = "bind" /\ UNCHANGED <<log, exit_status, sock>>
    /\ UNCHANGED <<service, server_fd, running, conns, ctime_buf, clock,
                   sig_pc, sig_thread>>

Bind ==
    /\ Steps(MainThread) /\ main_pc = "bind"
    /\ \E failed \in (IF sock = "open" THEN BOOLEAN ELSE {TRUE}) :
        /\ setup_failed' = IF failed THEN setup_failed \cup {"bind"} ELSE setup_failed
        /\ IF failed
           THEN Fail("Bind failed on port 8080") /\ sock' = ClosedAtExit(sock)
                /\ UNCHANGED main_pc
           ELSE main_pc' = "listen" /\ sock' = "bound" /\ UNCHANGED <<log, exit_status>>
    /\ UNCHANGED <<service, server_fd, running, conns, ctime_buf, clock,
                   sig_pc, sig_thread>>

Listen ==
    /\ Steps(MainThread) /\ main_pc = "listen"
    /\ \E failed \in (IF sock = "bound" THEN BOOLEAN ELSE {TRUE}) :
        /\ setup_failed' = IF failed THEN setup_failed \cup {"listen"} ELSE setup_failed
        /\ IF failed
           THEN Fail("Listen failed") /\ sock' = ClosedAtExit(sock)
                /\ UNCHANGED main_pc
           ELSE main_pc' = "loop" /\ sock' = "listening" /\ UNCHANGED <<log, exit_status>>
    /\ UNCHANGED <<service, server_fd, running, conns, ctime_buf, clock,
                   sig_pc, sig_thread>>

(***************************************************************************)
(* main: the accept loop.                                                  *)
(***************************************************************************)
\* while (running); return 0 when it is false
Loop ==
    /\ Steps(MainThread) /\ main_pc = "loop"
    /\ IF running
       THEN main_pc' = "accept" /\ UNCHANGED <<exit_status, sock>>
       ELSE exit_status' = 0 /\ sock' = ClosedAtExit(sock) /\ UNCHANGED main_pc
    /\ UNCHANGED <<service, server_fd, running, log, setup_failed, conns,
                   ctime_buf, clock, sig_pc, sig_thread>>

\* the connection accept() returns: the one queued first
NextQueued(c) ==
    /\ conns[c].pc = "queued"
    /\ \A d \in ConnIds : d < c => conns[d].pc # "queued"

\* accept() returns connection c.  The Analytics Engine starts a detached
\* thread running handleClient and goes on; the Reporting Engine handles
\* the connection itself.
Accept(c) ==
    /\ Steps(MainThread) /\ main_pc = "accept"
    /\ sock = "listening"
    /\ NextQueued(c)
    /\ conns' = [conns EXCEPT ![c].pc = "read"]
    /\ main_pc' = IF Threaded THEN "loop" ELSE "handling"
    /\ UNCHANGED <<service, server_fd, running, sock, log, setup_failed,
                   exit_status, ctime_buf, clock, sig_pc, sig_thread>>

\* accept() returns -1: always once the descriptor is closed, and at times
\* while it is open
AcceptFail ==
    /\ Steps(MainThread) /\ main_pc = "accept"
    /\ log' = IF running THEN log \cup {"Accept failed"} ELSE log
    /\ main_pc' = "loop"
    /\ UNCHANGED <<service, server_fd, running, sock, setup_failed, exit_status,
                   conns, ctime_buf, clock, sig_pc, sig_thread>>

(***************************************************************************)
(* Clients and the clock.                                                  *)
(***************************************************************************)
\* a client connects to the listening socket; clients connect in the order
\* of their numbers
Connect(c) ==
    /\ Alive /\ sock = "listening"
    /\ conns[c].pc = "idle"
    /\ \A d \in ConnIds : d < c => conns[d].pc # "idle"
    /\ \E cl \in Clients :
        conns' = [conns EXCEPT ![c] =
                     [IdleConn EXCEPT !.pc = "queued", !.kind = cl.kind, !.data = cl.data]]
    /\ UNCHANGED <<service, main_pc, server_fd, running, sock, log, setup_failed,
                   exit_status, ctime_buf, clock, sig_pc, sig_thread>>

Tick ==
    /\ Alive /\ clock < MaxClock
    /\ clock' = clock + 1
    /\ UNCHANGED <<service, main_pc, server_fd, running, sock, log, setup_failed,
                   exit_status, conns, ctime_buf, sig_pc, sig_thread>>

(***************************************************************************)
(* The handler of a connection: handleClient in the Analytics Engine, the  *)
(* body of the accept loop in the Reporting Engine.                        *)
(***************************************************************************)
\* what read(client_socket, buffer, sizeof(buffer) - 1) returns
BytesRead(k) ==
    IF k.kind = "sends" THEN Min(Len(k.data), BufferSize - 1)
    ELSE IF k.kind = "eof" THEN 0
    ELSE -1

\* EarlyReturn with the test written bytes_read < 0: a read of 0 bytes goes
\* on to the dispatch
EarlyReturn_ErrorOnly(bytes_read) == Threaded /\ bytes_read < 0

\* handleClient returns after close when bytes_read <= 0; the Reporting
\* Engine does not look at what read returns
EarlyReturn(bytes_read) == Threaded /\ bytes_read <= 0

Read(c) ==
    /\ Steps(ThreadOf(c)) /\ conns[c].pc = "read"
    /\ conns[c].kind # "silent"
    /\ LET n == BytesRead(conns[c])
       IN  conns' = [conns EXCEPT ![c] =
                [@ EXCEPT !.bytes_read = n,
                          !.buffer = IF n > 0 THEN SubSeq(conns[c].data, 1, n) ELSE << >>,
                          !.io = Append(@, "read"),
                          !.pc = IF EarlyReturn(n) THEN "close" ELSE "route"]]
    /\ UNCHANGED <<service, main_pc, server_fd, running, sock, log, setup_failed,
                   exit_status, ctime_buf, clock, sig_pc, sig_thread>>

\* what a buffer can hold after the read: a request, or nothing
Buffers == WideRequests \cup Requests \cup {<< >>}

\* the route each service chooses for each buffer: the Analytics Engine
\* builds std::string request(buffer, bytes_read), parses the request line
\* and compares the path; the Reporting Engine builds std::string
\* request(buffer) and searches it
RouteTable ==
    [svc \in Services |->
        [buffer \in Buffers |->
            IF svc = "analytics"
            THEN analytics_Route(ParseRequestLine(buffer).path)
            ELSE reporting_Route(CString(buffer))]]

\* the route of the request in the buffer
RouteOf(svc, buffer) == RouteTable[svc][buffer]

\* the response of a route; the timestamp matters to the Analytics Engine only
Respond(svc, route, timestamp) ==
    IF svc = "analytics" THEN analytics_Respond(route, timestamp)
    ELSE reporting_Respond(route)

\* the route is chosen; a handler that needs no timestamp builds the response
Dispatch(c) ==
    /\ Steps(ThreadOf(c)) /\ conns[c].pc = "route"
    /\ \E r \in {RouteOf(service, conns[c].buffer)} :
        conns' = [conns EXCEPT ![c] =
            IF Threaded /\ UsesTimestamp(r)
            THEN [@ EXCEPT !.route = r, !.pc = "time"]
            ELSE [@ EXCEPT !.route = r, !.pc = "send",
                           !.response = Respond(service, r, << >>)]]
    /\ UNCHANGED <<service, main_pc, server_fd, running, sock, log, setup_failed,
                   exit_status, ctime_buf, clock, sig_pc, sig_thread>>

\* getCurrentTimestamp: time_t now = time(0)
GetTime(c) ==
    /\ Steps(ThreadOf(c)) /\ conns[c].pc = "time"
    /\ conns' = [conns EXCEPT ![c] = [@ EXCEPT !.t = clock, !.pc = "ctime"]]
    /\ UNCHANGED <<service, main_pc, server_fd, running, sock, log, setup_failed,
                   exit_status, ctime_buf, clock, sig_pc, sig_thread>>

\* getCurrentTimestamp: char* dt = ctime(&now), which formats into the one
\* static buffer of the C library
CtimeCall(c) ==
    /\ Steps(ThreadOf(c)) /\ conns[c].pc = "ctime"
    /\ ctime_buf' = ctime(conns[c].t)
    /\ conns' = [conns EXCEPT ![c].pc = "copy"]
    /\ UNCHANGED <<service, main_pc, server_fd, running, sock, log, setup_failed,
                   exit_status, clock, sig_pc, sig_thread>>

\* getCurrentTimestamp: the string is copied out of the buffer and the
\* handler builds its response around it
CopyTimestamp(c) ==
    /\ Steps(ThreadOf(c)) /\ conns[c].pc = "copy"
    /\ LET ts == StripNewline(ctime_buf)
       IN  conns' = [conns EXCEPT ![c] =
                [@ EXCEPT !.timestamp = ts, !.pc = "send",
                          !.response = Respond(service, conns[c].route, ts)]]
    /\ UNCHANGED <<service, main_pc, server_fd, running, sock, log, setup_failed,
                   exit_status, ctime_buf, clock, sig_pc, sig_thread>>

\* send(client_socket, response.c_str(), response.length(), 0)
Send(c) ==
    /\ Steps(ThreadOf(c)) /\ conns[c].pc = "send"
    /\ conns' = [conns EXCEPT ![c] = [@ EXCEPT !.io = Append(@, "send"), !.pc = "close"]]
    /\ UNCHANGED <<service, main_pc, server_fd, running, sock, log, setup_failed,
                   exit_status, ctime_buf, clock, sig_pc, sig_thread>>

\* close(client_socket); the Reporting Engine then goes round its loop
Close(c) ==
    /\ Steps(ThreadOf(c)) /\ conns[c].pc = "close"
    /\ conns' = [conns EXCEPT ![c] = [@ EXCEPT !.io = Append(@, "close"), !.pc = "done"]]
    /\ main_pc' = IF Threaded THEN main_pc ELSE "loop"
    /\ UNCHANGED <<service, server_fd, running, sock, log, setup_failed,
                   exit_status, ctime_buf, clock, sig_pc, sig_thread>>

(***************************************************************************)
(* signalHandler, on SIGINT or SIGTERM.                                    *)
(***************************************************************************)
\* the threads of the process: main, and in the Analytics Engine the
\* handler threads that have not returned
LiveThreads ==
    {MainThread} \cup
    (IF Threaded THEN {c \in ConnIds : conns[c].pc \in HandlerPcs} ELSE {})

\* the signal is delivered to a thread of the process, which enters
\* signalHandler: the message is printed and running = false
SignalEnter(th) ==
    /\ Alive /\ sig_pc = "none"
    /\ th \in LiveThreads
    /\ sig_pc' = "entered"
    /\ sig_thread' = th
    /\ running' = FALSE
    /\ UNCHANGED <<service, main_pc, server_fd, sock, log, setup_failed,
                   exit_status, conns, ctime_buf, clock>>

\* SignalClose with the close left out
SignalClose_NoClose ==
    /\ Alive /\ sig_pc = "entered"
    /\ sig_pc' = "closing"
    /\ UNCHANGED <<service, main_pc, server_fd, running, sock, log, setup_failed,
                   exit_status, conns, ctime_buf, clock, sig_thread>>

\* if (server_fd > 0) close(server_fd)
SignalClose ==
    /\ Alive /\ sig_pc = "entered"
    /\ sock' = IF server_fd > 0 THEN "closed" ELSE sock
    /\ sig_pc' = "closing"
    /\ UNCHANGED <<service, main_pc, server_fd, running, log, setup_failed,
                   exit_status, conns, ctime_buf, clock, sig_thread>>

\* exit(0)
SignalExit ==
    /\ Alive /\ sig_pc = "closing"
    /\ exit_status' = 0
    /\ sock' = ClosedAtExit(sock)
    /\ sig_pc' = "exited"
    /\ UNCHANGED <<service, main_pc, server_fd, running, log, setup_failed,
                   conns, ctime_buf, clock, sig_thread>>

(***************************************************************************)
(* The server specification.                                               *)
(***************************************************************************)
Next ==
    \/ Socket
    \/ Setsockopt
    \/ Bind
    \/ Listen
    \/ Loop
    \/ AcceptFail
    \/ Tick
    \/ SignalClose
    \/ SignalExit
    \/ \E th \in {MainThread} \cup ConnIds : SignalEnter(th)
    \/ \E c \in ConnIds :
        \/ Connect(c)
        \/ Accept(c)
        \/ Read(c)
        \/ Dispatch(c)
        \/ GetTime(c)
        \/ CtimeCall(c)
        \/ CopyTimestamp(c)
        \/ Send(c)
        \/ Close(c)

Spec == Init /\ [][Next]_vars

(***************************************************************************)
(* The server under fair scheduling: every thread that can take a step     *)
(* takes one, a signalHandler that was entered runs to its exit(0), and    *)
(* accept() does not fail forever while a connection is queued.            *)
(***************************************************************************)
Fairness ==
    /\ WF_vars(Loop)
    /\ WF_vars(SignalClose)
    /\ WF_vars(SignalExit)
    /\ \A c \in ConnIds :
        /\ SF_vars(Accept(c))
        /\ WF_vars(Read(c))
        /\ WF_vars(Dispatch(c))
        /\ WF_vars(GetTime(c))
        /\ WF_vars(CtimeCall(c))
        /\ WF_vars(CopyTimestamp(c))
        /\ WF_vars(Send(c))
        /\ WF_vars(Close(c))

LiveSpec == Init /\ [][Next]_vars /\ Fairness

(***************************************************************************)
(* The routing specification: the server has set up its socket and         *)
(* accepted one connection, whose client sends any of WideRequests; the    *)
(* handler of the connection runs.                                         *)
(***************************************************************************)
RouteInit ==
    /\ service \in Services
    /\ main_pc = (IF service = "analytics" THEN "loop" ELSE "handling")
    /\ server_fd = ListenFd
    /\ running = TRUE
    /\ sock = "listening"
    /\ log = {}
    /\ setup_failed = {}
    /\ exit_status = NotExited
    /\ \E r \in WideRequests :
        conns = [c \in ConnIds |->
                    IF c = 1
                    THEN [IdleConn EXCEPT !.pc = "read", !.kind = "sends", !.data = r]
                    ELSE IdleConn]
    /\ ctime_buf = << >>
    /\ clock = 0
    /\ sig_pc = "none"
    /\ sig_thread = MainThread

RouteNext ==
    \/ Tick
    \/ \E c \in ConnIds :
        \/ Read(c)
        \/ Dispatch(c)
        \/ GetTime(c)
        \/ CtimeCall(c)
        \/ CopyTimestamp(c)
        \/ Send(c)
        \/ Close(c)

RouteSpec == RouteInit /\ [][RouteNext]_vars

(***************************************************************************)
(* Properties.                                                             *)
(***************************************************************************)
\* a response has been written on connection c
HasSent(c) == \E i \in DOMAIN conns[c].io : conns[c].io[i] = "send"

\* the endpoints each service announces
KnownPaths(svc) ==
    IF svc = "analytics"
    THEN {PathHealth, PathRoot, PathSpendingAnalysis, PathTrends, PathPredictions}
    ELSE {PathHealth, PathRoot, PathReports}

\* the requests whose request line is "method path HTTP/1.1"
RequestsFor(method, path) == {RequestLine(method, path) \o t : t \in Tails}

\* the timestamps a handler can interpolate
Timestamps == {StripNewline(ctime(n)) : n \in 0..MaxClock}

\* the endpoints that have a handler of their own
HasFixture(svc, path) == svc = "analytics" \/ path \in {PathHealth, PathRoot}

\* the 200 response of the handler written for an endpoint
EndpointResponse(svc, path, ts) ==
    IF svc = "analytics"
    THEN IF path = PathHealth THEN analytics_handleHealthCheck(ts)
         ELSE IF path = PathRoot THEN analytics_handleRootRequest
         ELSE IF path = PathSpendingAnalysis THEN analytics_handleSpendingAnalysis(ts)
         ELSE IF path = PathTrends THEN analytics_handleTrends(ts)
         ELSE analytics_handlePredictions(ts)
    ELSE IF path = PathHealth THEN reporting_handleHealthCheck
         ELSE reporting_handleRootRequest

IsFixtureOf(svc, path, body) ==
    /\ HasFixture(svc, path)
    /\ \E ts \in Timestamps : body = EndpointResponse(svc, path, ts).body

\* C1: in each service a GET request for a known endpoint is answered with
\* status 200 and with the fixture body of that endpoint, not the body of
\* another endpoint.
C1_KnownEndpointGets200 ==
    \A c \in ConnIds : \A p \in KnownPaths(service) :
        (HasSent(c) /\ conns[c].data \in RequestsFor(GET, p)) =>
            /\ conns[c].response.status_line = StatusOK
            /\ HasFixture(service, p) => IsFixtureOf(service, p, conns[c].response.body)
            /\ \A q \in KnownPaths(service) \ {p} :
                   ~IsFixtureOf(service, q, conns[c].response.body)

\* C2: in both services a request whose path is not a known endpoint path is
\* answered with status 404 and a JSON error body, never with a 200 payload.
C2_UnknownPathGets404 ==
    \A c \in ConnIds : \A m \in Methods : \A p \in Paths \ KnownPaths(service) :
        (HasSent(c) /\ conns[c].data \in RequestsFor(m, p)) =>
            /\ conns[c].response.status_line = StatusNotFound
            /\ Header("Content-Type", "application/json")
                   \in {conns[c].response.headers[i] : i \in DOMAIN conns[c].response.headers}
            /\ conns[c].response.body # << >>

\* the request line of a request: the text up to the first line end
RECURSIVE FirstLine(_)
FirstLine(s) ==
    IF s = << >> \/ Head(s) \in {"\r", "\n"} THEN << >>
    ELSE <<Head(s)>> \o FirstLine(Tail(s))

\* C3: in both services the route depends only on the request line: a
\* request with the same request line and other headers or body gets the
\* same handler, status and fixture.
C3_RouteDependsOnRequestLineOnly ==
    \A c \in ConnIds : \A r \in WideRequests :
        (HasSent(c) /\ FirstLine(r) = FirstLine(conns[c].data)) =>
            /\ RouteOf(service, r) = conns[c].route
            /\ Respond(service, RouteOf(service, r), conns[c].timestamp) = conns[c].response

\* C4: in both services a request gets the 200 payload of an endpoint only
\* when its method is GET and its path is the path of that endpoint.
C4_RouteKeyedOnMethodAndPath ==
    \A c \in ConnIds : \A p \in KnownPaths(service) :
        (HasSent(c) /\ IsFixtureOf(service, p, conns[c].response.body)) =>
            conns[c].data \in RequestsFor(GET, p)

\* the envelope of a response: HTTP/1.1 status line, the three headers with
\* Content-Length equal to the length of the body, and a body
CompleteEnvelope(resp) ==
    LET hs == {resp.headers[i] : i \in DOMAIN resp.headers}
    IN  /\ resp.status_line \in {StatusOK, StatusNotFound}
        /\ Header("Content-Type", "application/json") \in hs
        /\ Header("Content-Length", ToString(Length(resp.body))) \in hs
        /\ Header("Access-Control-Allow-Origin", "*") \in hs
        /\ resp.body # << >>

\* C5: every response either service sends, the 404 included, has the
\* complete envelope.
C5_EveryResponseHasEnvelope ==
    \A c \in ConnIds : HasSent(c) => CompleteEnvelope(conns[c].response)

\* C6 as stated: every connection that is closed was read once, was written
\* exactly one response and was then closed, also when read returned 0 or
\* an error.
C6_ClosedOnlyAfterOneResponse ==
    \A c \in ConnIds :
        /\ conns[c].io \in {<< >>, <<"read">>, <<"read", "send">>, <<"read", "send", "close">>}
        /\ HasSent(c) => conns[c].response # NoResponse

\* C6, amended: the calls on a connection are read, then one send of the
\* response the dispatch built, then close; only the Analytics Engine,
\* when read returns 0 or an error, closes after the read with no response.
\* No connection gets a second response, and close is the last call.
C6_OneResponseUnlessEmptyRead ==
    \A c \in ConnIds :
        LET unanswered == service = "analytics" /\ conns[c].bytes_read <= 0
        IN  /\ conns[c].io \in IF unanswered
                                THEN {<< >>, <<"read">>, <<"read", "close">>}
                                ELSE {<< >>, <<"read">>, <<"read", "send">>,
                                      <<"read", "send", "close">>}
            /\ HasSent(c) => conns[c].response # NoResponse
            /\ conns[c].pc = "done" <=> (conns[c].io # << >> /\ conns[c].io[Len(conns[c].io)] = "close")
            /\ conns[c].pc \in {"idle", "queued", "read"} => conns[c].io = << >>

\* a connection closed with its response written, and one the Analytics
\* Engine closed with no response after an empty read
C6_Witness ==
    /\ \E c \in ConnIds : conns[c].io = <<"read", "send", "close">>
    /\ \E c \in ConnIds : conns[c].io = <<"read", "close">> /\ conns[c].kind = "eof"

\* C7: in the Analytics Engine the timestamp in a response is the one the
\* handler's own time(0) formats to, whatever the other handler threads do.
C7_TimestampIsOwn ==
    \A c \in ConnIds :
        (service = "analytics" /\ conns[c].pc \in {"send", "close", "done"}
             /\ UsesTimestamp(conns[c].route)) =>
            /\ conns[c].timestamp = StripNewline(ctime(conns[c].t))
            /\ conns[c].response =
                   analytics_Respond(analytics_Route(ParseRequestLine(conns[c].data).path),
                                     StripNewline(ctime(conns[c].t)))

Signalled == sig_pc # "none"

\* the connections accept() has returned
Accepted == {c \in ConnIds : conns[c].pc \notin {"idle", "queued"}}

\* C8 as stated: once the signal is delivered no connection is accepted,
\* and the process exits with status 0 with the listening socket, if it
\* was opened, closed.
C8_NoAcceptAfterSignal ==
    [][/\ Signalled => Accepted' = Accepted
       /\ (Signalled' /\ exit_status' # NotExited) =>
              (exit_status' = 0 /\ sock' \in {"none", "closed"})]_vars

\* C8, amended: once the signal is delivered the process exits, and with
\* status 0; signalHandler closes the listening socket before its exit(0)
\* when server_fd > 0; no connection is accepted while signalHandler runs
\* on the main thread.  (In the Analytics Engine, while it runs on a handler
\* thread, main can accept, and can return 0 itself.)
C8_SignalExitsZero ==
    /\ []((Signalled /\ ~Alive) => exit_status = 0)
    /\ []((sig_pc = "closing" /\ server_fd > 0) => sock = "closed")
    /\ []((service = "reporting" /\ Signalled) => sig_thread = MainThread)
    /\ [][InHandler(MainThread) => Accepted' = Accepted]_vars
    /\ Signalled ~> ~Alive

\* signalHandler, entered while a connection was being handled, has closed
\* the listening socket and is about to call exit(0)
C8_Witness ==
    /\ sig_pc = "closing" /\ Alive
    /\ server_fd > 0 /\ sock = "closed"
    /\ \E c \in ConnIds : conns[c].pc \in HandlerPcs

SetupMessage(step) ==
    IF step = "socket" THEN "Socket creation failed"
    ELSE IF step = "bind" THEN "Bind failed on port 8080"
    ELSE "Listen failed"

\* C9: when socket creation, bind or listen fails, the process never
\* reaches the accept loop, and when it has ended (other than by a signal)
\* it has logged the failure of that step and its exit status is 1.
C9_SetupFailureLoggedExit1 ==
    \A step \in {"socket", "bind", "listen"} :
        step \in setup_failed =>
            /\ main_pc \notin {"loop", "accept", "handling"}
            /\ Accepted = {}
            /\ (~Alive /\ ~Signalled) =>
                   (exit_status = 1 /\ SetupMessage(step) \in log)

\* the client of connection c sends a request
Sends(c) == conns[c].kind = "sends"

\* connection c has had its response written and has been closed
Served(c) == conns[c].io = <<"read", "send", "close">>

\* C10 as stated: in the Analytics Engine every connection whose client
\* sends a request is accepted, answered and closed in the end, whichever
\* other connections hang in read.
C10_SendersServed ==
    \A c \in ConnIds :
        (service = "analytics" /\ conns[c].pc \in {"queued"} \cup HandlerPcs /\ Sends(c))
            ~> Served(c)

\* C10, amended: the same, unless the process exits first (on SIGINT or
\* SIGTERM).
C10_SendersServedUnlessExit ==
    \A c \in ConnIds :
        (service = "analytics" /\ conns[c].pc \in {"queued"} \cup HandlerPcs /\ Sends(c))
            ~> (Served(c) \/ ~Alive)

\* one connection hangs in read while a later one has been served
C10_Witness ==
    /\ service = "analytics"
    /\ \E c, d \in ConnIds :
        /\ c < d
        /\ conns[c].pc = "read" /\ conns[c].kind = "silent"
        /\ Served(d)
====
